---- MODULE Spec2Model ----
(***************************************************************************)
(* Model of tools/read_zone/zbc_read_zone.c (libzbc): the zone read tool.  *)
(*                                                                         *)
(* main() is modelled as a sequential process whose position is pc; the    *)
(* signal handler zbc_read_zone_sigcatcher() is a second, asynchronous     *)
(* action that may run between any two steps of main() once the handlers   *)
(* are installed.  Sector quantities are 512-byte sectors, byte quantities *)
(* are bytes, exactly as in the source (>> 9 and << 9).                    *)
(*                                                                         *)
(* All quantities of the model stay far below 2^31, so the C arithmetic    *)
(* on (unsigned) long long / ssize_t values is the integer arithmetic      *)
(* written here; in particular the unsigned difference wp - start stored   *)
(* into the signed sector_max is the signed integer difference.            *)
(***************************************************************************)
EXTENDS Integers, Sequences, FiniteSets, TLC

(***************************************************************************)
(* Bounds of the model.                                                    *)
(***************************************************************************)
\* Largest zone length, in sectors.
MaxLen == 3
\* Largest -nio argument.
MaxNio == 2
\* I/O sizes given on the command line are multiples of 256 B up to
\* MaxIoUnits * 256 B (so that misaligned sizes occur as well).
MaxIoUnits == 6
\* First sector of the target zone (any value the device reports).
ZoneStart == 2

(***************************************************************************)
(* Program constants.                                                      *)
(***************************************************************************)
\* fileno(stdout).
StdoutFd == 1

Min(a, b) == IF a < b THEN a ELSE b
Max(a, b) == IF a > b THEN a ELSE b

\* x >> 9 and x << 9 on non-negative values.
Shr9(x) == x \div 512
Shl9(x) == x * 512

(***************************************************************************)
(* Zone descriptor (struct zbc_zone) and its accessors.                    *)
(***************************************************************************)
ZoneTypes == {"CONVENTIONAL", "SEQUENTIAL_REQ", "SEQUENTIAL_PREF"}
ZoneConditions == {"FULL", "OTHER"}

\* The descriptors the zone list may carry.  The write pointer field is any
\* sector value, also outside [start, start + length]: it is not meaningful
\* for conventional, full, read-only or offline zones.  For the zones whose
\* write pointer the tool never reads (not sequential-write-required, or
\* full) two values of the field are kept.
ZoneDescriptors ==
    {z \in [zbz_type : ZoneTypes,
            zbz_condition : ZoneConditions,
            zbz_start : {ZoneStart},
            zbz_length : 1..MaxLen,
            zbz_write_pointer : (ZoneStart - 1)..(ZoneStart + MaxLen)] :
        \/ (z.zbz_type = "SEQUENTIAL_REQ" /\ z.zbz_condition # "FULL")
        \/ z.zbz_write_pointer \in {z.zbz_start, z.zbz_start + z.zbz_length}}

zbc_zone_conventional(z) == z.zbz_type = "CONVENTIONAL"
zbc_zone_sequential_req(z) == z.zbz_type = "SEQUENTIAL_REQ"
zbc_zone_full(z) == z.zbz_condition = "FULL"
zbc_zone_start(z) == z.zbz_start
zbc_zone_length(z) == z.zbz_length
zbc_zone_wp(z) == z.zbz_write_pointer

NoZone ==
    [zbz_type |-> "CONVENTIONAL", zbz_condition |-> "OTHER", zbz_start |-> 0,
     zbz_length |-> 0, zbz_write_pointer |-> 0]

(***************************************************************************)
(* Command line and device inputs.                                         *)
(***************************************************************************)
NioArgs == 0..MaxNio
OfstArgs == (0 - 1)..(MaxLen + 1)
ZidxArgs == (0 - 1)..1
IoSizes == {k * 256 : k \in 0..MaxIoUnits}
FileArgs == {"NULL", "-", "out.bin"}
LBlockSizes == {512, 1024}
NrZones == {1}
\* Microseconds between the two zbc_read_zone_usec() calls.
ElapsedValues == {0, 3, 1500}

VARIABLES
    pc,                  \* position of main()
    zbc_read_zone_abort, \* the abort flag (static int)
    dev, zones, iobuf,   \* resources: "NULL", "open"/"alloc", "closed"/"freed"
    lblock_size,         \* info.zbd_lblock_size
    nr_zones, zidx, iozone,
    iosize, ionum, file, fvio, fd,
    sector_ofst, sector_max, sector_count,
    ret, bcount, iocount,
    req,                 \* the read request in flight or last issued
    reads,               \* number of reads dispatched (history)
    reads_after_abort,   \* reads dispatched while the flag was set (history)
    sink_writes,         \* number of write(2) calls on the output (history)
    sink_bytes,          \* bytes handed to the last write(2) (history)
    loop_exit,           \* why the while loop was left
    unlinked,            \* the name given to unlink(2), "NULL" if none
    exit_status,         \* value returned by main(), -1 while running
    start_ofst,          \* the sector offset the loop started from (history)
    io_result,           \* <<r>>: the value the read primitive or write(2)
                         \* returned last, <<>> before any (history)
    arg_ofst, arg_iosize, \* the -ofst and I/O size arguments as given
                         \* (history)
    short_seen,          \* a read transferred less than asked (history)
    elapsed,             \* microseconds between lines 307 and 361
    report,              \* <<>>, or <<r>> with r the values printed by
                         \* lines 362-378
    fd_state,            \* the output descriptor: "none", "std" (standard
                         \* output), "open", "closed"
    cleanups             \* number of passes through the out: label (history)

vars == <<pc, zbc_read_zone_abort, dev, zones, iobuf, lblock_size, nr_zones,
          zidx, iozone, iosize, ionum, file, fvio, fd, sector_ofst,
          sector_max, sector_count, ret, bcount, iocount, req, reads,
          reads_after_abort, sink_writes, sink_bytes, loop_exit, unlinked,
          exit_status, start_ofst, io_result, arg_ofst, arg_iosize,
          short_seen, elapsed, report, fd_state, cleanups>>

\* Everything main() owns: all but the abort flag.
main_vars == <<pc, dev, zones, iobuf, lblock_size, nr_zones,
          zidx, iozone, iosize, ionum, file, fvio, fd, sector_ofst,
          sector_max, sector_count, ret, bcount, iocount, req, reads,
          sink_writes, sink_bytes, loop_exit, unlinked, exit_status,
          start_ofst, io_result, arg_ofst, arg_iosize, short_seen,
          elapsed, report, fd_state, cleanups>>

NoReq == [sector |-> 0, count |-> 0, iov |-> <<>>]

Init ==
    /\ pc = "parse"
    /\ zbc_read_zone_abort = 0
    /\ dev = "NULL" /\ zones = "NULL" /\ iobuf = "NULL"
    /\ lblock_size = 0
    /\ nr_zones = 0 /\ zidx = 0 /\ iozone = NoZone
    /\ iosize = 0 /\ ionum = 0 /\ file = "NULL" /\ fvio = FALSE
    /\ fd = 0 - 1
    /\ sector_ofst = 0 /\ sector_max = 0 /\ sector_count = 0
    /\ ret = 1 /\ bcount = 0 /\ iocount = 0
    /\ req = NoReq /\ reads = 0 /\ reads_after_abort = 0
    /\ sink_writes = 0 /\ sink_bytes = 0
    /\ loop_exit = "none"
    /\ unlinked = "NULL"
    /\ exit_status = 0 - 1
    /\ start_ofst = 0
    /\ io_result = <<>>
    /\ arg_ofst = 0 /\ arg_iosize = 0
    /\ short_seen = FALSE
    /\ elapsed = 0
    /\ report = <<>>
    /\ fd_state = "none"
    /\ cleanups = 0

\* return <code> from main() without passing through the out: label.
Return(code) ==
    /\ pc' = "exit"
    /\ exit_status' = code

(***************************************************************************)
(* Command line parsing, lines 84-178.  A -nio argument that is not        *)
(* positive, a negative -ofst argument, a negative zone number and a zero  *)
(* I/O size all return 1 before the device is opened.  (A negative -nio     *)
(* argument wraps to a huge unsigned budget that no run reaches; it acts   *)
(* as no budget and is not drawn here.)                                    *)
(***************************************************************************)
ParseArgs ==
    /\ pc = "parse"
    /\ \E has_nio \in BOOLEAN, nio \in NioArgs, ofst \in OfstArgs,
          f \in FileArgs, vio \in BOOLEAN, z \in ZidxArgs, sz \in IoSizes :
          /\ arg_ofst' = ofst
          /\ arg_iosize' = sz
          /\ IF \/ (has_nio /\ nio <= 0)
                \/ ofst < 0
                \/ z < 0
                \/ sz = 0
             THEN /\ Return(1)
                  /\ UNCHANGED <<ionum, sector_ofst, start_ofst, file, fvio,
                                 zidx, iosize>>
             ELSE /\ ionum' = (IF has_nio THEN nio ELSE 0)
                  /\ sector_ofst' = ofst
                  /\ start_ofst' = ofst
                  /\ file' = f
                  /\ fvio' = vio
                  /\ zidx' = z
                  /\ iosize' = sz
                  /\ pc' = "open_dev"
                  /\ UNCHANGED exit_status
    /\ UNCHANGED <<short_seen, elapsed, report, fd_state, cleanups,
                   io_result, zbc_read_zone_abort, dev, zones, iobuf,
                   lblock_size,
                   nr_zones, iozone, fd, sector_max, sector_count, ret,
                   bcount, iocount, req, reads, reads_after_abort,
                   sink_writes, sink_bytes, loop_exit, unlinked>>

(***************************************************************************)
(* zbc_open(), lines 186-198.  On success the device information gives the *)
(* logical block size.                                                     *)
(***************************************************************************)
OpenDevice ==
    /\ pc = "open_dev"
    /\ \/ /\ ret' = 0 - 19
          /\ Return(1)
          /\ UNCHANGED <<dev, lblock_size>>
       \/ /\ \E lb \in LBlockSizes : lblock_size' = lb
          /\ ret' = 0
          /\ dev' = "open"
          /\ pc' = "list_zones"
          /\ UNCHANGED exit_status
    /\ UNCHANGED <<arg_ofst, arg_iosize, short_seen, elapsed, report,
                   fd_state, cleanups,
                   start_ofst, io_result, zbc_read_zone_abort, zones, iobuf,
                   nr_zones, zidx, iozone,
                   iosize, ionum, file, fvio, fd, sector_ofst, sector_max,
                   sector_count, bcount, iocount, req, reads,
                   reads_after_abort, sink_writes, sink_bytes, loop_exit,
                   unlinked>>

(***************************************************************************)
(* zbc_list_zones(), lines 204-209.                                        *)
(***************************************************************************)
ListZones ==
    /\ pc = "list_zones"
    /\ \/ /\ ret' = 1
          /\ pc' = "out"
          /\ UNCHANGED <<zones, nr_zones>>
       \/ /\ ret' = 0
          /\ zones' = "alloc"
          /\ \E n \in NrZones : nr_zones' = n
          /\ pc' = "get_zone"
    /\ UNCHANGED <<arg_ofst, arg_iosize, short_seen, elapsed, report,
                   fd_state, cleanups,
                   start_ofst, io_result, zbc_read_zone_abort, dev, iobuf,
                   lblock_size, zidx, iozone,
                   iosize, ionum, file, fvio, fd, sector_ofst, sector_max,
                   sector_count, bcount, iocount, req, reads,
                   reads_after_abort, sink_writes, sink_bytes, loop_exit,
                   unlinked, exit_status>>

(***************************************************************************)
(* Target zone lookup, lines 212-217: iozone = &zones[zidx].               *)
(***************************************************************************)
GetZone ==
    /\ pc = "get_zone"
    /\ IF zidx >= nr_zones
       THEN /\ ret' = 1
            /\ pc' = "out"
            /\ UNCHANGED iozone
       ELSE /\ \E z \in ZoneDescriptors : iozone' = z
            /\ pc' = "check_align"
            /\ UNCHANGED ret
    /\ UNCHANGED <<arg_ofst, arg_iosize, short_seen, elapsed, report,
                   fd_state, cleanups,
                   start_ofst, io_result, zbc_read_zone_abort, dev, zones,
                   iobuf, lblock_size,
                   nr_zones, zidx, iosize, ionum, file, fvio, fd, sector_ofst,
                   sector_max, sector_count, bcount, iocount, req, reads,
                   reads_after_abort, sink_writes, sink_bytes, loop_exit,
                   unlinked, exit_status>>

(***************************************************************************)
(* I/O size alignment check, lines 243-250.                                *)
(***************************************************************************)
\* Mutant of CheckAlign: the I/O size is not tested.
CheckAlign_NoCheck ==
    /\ pc = "check_align"
    /\ pc' = "alloc"
    /\ UNCHANGED <<arg_ofst, arg_iosize, short_seen, elapsed, report,
                   fd_state, cleanups, ret,
                   start_ofst, io_result, zbc_read_zone_abort, dev, zones,
                   iobuf, lblock_size,
                   nr_zones, zidx, iozone, iosize, ionum, file, fvio, fd,
                   sector_ofst, sector_max, sector_count, bcount, iocount,
                   req, reads, reads_after_abort, sink_writes, sink_bytes,
                   loop_exit, unlinked, exit_status>>

CheckAlign ==
    /\ pc = "check_align"
    /\ IF iosize % lblock_size # 0
       THEN /\ ret' = 1
            /\ pc' = "out"
       ELSE /\ pc' = "alloc"
            /\ UNCHANGED ret
    /\ UNCHANGED <<arg_ofst, arg_iosize, short_seen, elapsed, report,
                   fd_state, cleanups,
                   start_ofst, io_result, zbc_read_zone_abort, dev, zones,
                   iobuf, lblock_size,
                   nr_zones, zidx, iozone, iosize, ionum, file, fvio, fd,
                   sector_ofst, sector_max, sector_count, bcount, iocount,
                   req, reads, reads_after_abort, sink_writes, sink_bytes,
                   loop_exit, unlinked, exit_status>>

(***************************************************************************)
(* posix_memalign(), lines 252-257.                                        *)
(***************************************************************************)
AllocBuf ==
    /\ pc = "alloc"
    /\ \/ /\ ret' = 1
          /\ pc' = "out"
          /\ UNCHANGED iobuf
       \/ /\ ret' = 0
          /\ iobuf' = "alloc"
          /\ pc' = "open_file"
    /\ UNCHANGED <<arg_ofst, arg_iosize, short_seen, elapsed, report,
                   fd_state, cleanups,
                   start_ofst, io_result, zbc_read_zone_abort, dev, zones,
                   lblock_size, nr_zones,
                   zidx, iozone, iosize, ionum, file, fvio, fd, sector_ofst,
                   sector_max, sector_count, bcount, iocount, req, reads,
                   reads_after_abort, sink_writes, sink_bytes, loop_exit,
                   unlinked, exit_status>>

(***************************************************************************)
(* Output file, lines 260-299: none, standard output ("-"), or a file      *)
(* created with open(O_CREAT | O_TRUNC).                                   *)
(* open(2) gives the lowest free descriptor; the standard streams and the  *)
(* device are open, so a new descriptor is above fileno(stdout).           *)
(***************************************************************************)
OpenFile ==
    /\ pc = "open_file"
    /\ IF file = "NULL"
       THEN /\ pc' = "bounds"
            /\ UNCHANGED <<fd, fd_state, ret>>
       ELSE IF file = "-"
       THEN /\ fd' = StdoutFd
            /\ fd_state' = "std"
            /\ pc' = "bounds"
            /\ UNCHANGED ret
       ELSE \/ /\ fd' = 0 - 1
               /\ ret' = 1
               /\ pc' = "out"
               /\ UNCHANGED fd_state
            \/ /\ fd' = 3
               /\ fd_state' = "open"
               /\ pc' = "bounds"
               /\ UNCHANGED ret
    /\ UNCHANGED <<arg_ofst, arg_iosize, short_seen, elapsed, report,
                   cleanups,
                   start_ofst, io_result, zbc_read_zone_abort, dev, zones,
                   iobuf, lblock_size,
                   nr_zones, zidx, iozone, iosize, ionum, file, fvio,
                   sector_ofst, sector_max, sector_count, bcount, iocount,
                   req, reads, reads_after_abort, sink_writes, sink_bytes,
                   loop_exit, unlinked, exit_status>>

(***************************************************************************)
(* Boundary computation, lines 301-305.                                    *)
(***************************************************************************)
\* Mutant of ExtentLimit: the full condition is not tested.
ExtentLimit_IgnoreFull(z) ==
    IF zbc_zone_sequential_req(z)
    THEN zbc_zone_wp(z) - zbc_zone_start(z)
    ELSE zbc_zone_length(z)

ExtentLimit(z) ==
    IF zbc_zone_sequential_req(z) /\ ~zbc_zone_full(z)
    THEN zbc_zone_wp(z) - zbc_zone_start(z)
    ELSE zbc_zone_length(z)

Bounds ==
    /\ pc = "bounds"
    /\ sector_max' = ExtentLimit(iozone)
    /\ pc' = "loop"
    /\ UNCHANGED <<arg_ofst, arg_iosize, short_seen, elapsed, report,
                   fd_state, cleanups,
                   start_ofst, io_result, zbc_read_zone_abort, dev, zones,
                   iobuf, lblock_size,
                   nr_zones, zidx, iozone, iosize, ionum, file, fvio, fd,
                   sector_ofst, sector_count, ret, bcount, iocount, req,
                   reads, reads_after_abort, sink_writes, sink_bytes,
                   loop_exit, unlinked, exit_status>>

(***************************************************************************)
(* The read loop, lines 309-359.                                           *)
(***************************************************************************)
\* Mutant of WantSectors: the clamp to the extent limit is forgotten.
WantSectors_NoClamp(ofst, max, sz) == Shr9(sz)

\* Lines 312-314: the number of sectors to ask for.
WantSectors(ofst, max, sz) ==
    IF ofst + Shr9(sz) > max THEN max - ofst ELSE Shr9(sz)

\* Mutant of UseVectored: the threshold is two sectors whatever the logical
\* block size.
UseVectored_TwoSectors(vio, count, lb) == vio /\ count >= 2

\* Lines 317-318: whether the two-segment vectored read is used.
UseVectored(vio, count, lb) == vio /\ count >= 2 * Shr9(lb)

\* Mutant of IoVec: both segments get half the count, rounded down.
IoVec_HalfHalf(count) ==
    <<[iov_base |-> 0, iov_len |-> count \div 2],
      [iov_base |-> Shl9(count \div 2), iov_len |-> count \div 2]>>

\* Lines 320-324: the two segments, base as a byte offset into iobuf and
\* iov_len as passed to zbc_preadv (a number of 512 B sectors).
IoVec(count) ==
    <<[iov_base |-> 0, iov_len |-> count \div 2],
      [iov_base |-> Shl9(count \div 2), iov_len |-> count - count \div 2]>>

\* Mutant of ReadRequest: every read starts at the first sector of the zone.
ReadRequest_IgnoresOffset(z, ofst, count, vio, lb) ==
    [sector |-> zbc_zone_start(z),
     count |-> count,
     iov |-> IF UseVectored(vio, count, lb) THEN IoVec(count) ELSE <<>>]

\* Lines 326-330: the request handed to zbc_preadv or zbc_pread.
ReadRequest(z, ofst, count, vio, lb) ==
    IF UseVectored(vio, count, lb)
    THEN [sector |-> zbc_zone_start(z) + ofst,
          count |-> IoVec(count)[1].iov_len + IoVec(count)[2].iov_len,
          iov |-> IoVec(count)]
    ELSE [sector |-> zbc_zone_start(z) + ofst,
          count |-> count,
          iov |-> <<>>]

\* What zbc_pread / zbc_preadv may return for a request of n sectors: a
\* negative error code, zero, or the number of sectors read (short or full).
ReadResults(n) == {0 - 5, 0} \cup 1..n

\* What write(2) may return for n bytes: -1, or the number of bytes
\* written.  The code tests ret < 0 only and overwrites ret afterwards, so
\* a short count acts exactly as the full count, the one kept here.
WriteResults(n) == {0 - 1, n}

\* Mutant of LoopTest: the extent test stops one sector early.
LoopTest_OffByOne ==
    /\ pc = "loop"
    /\ IF zbc_read_zone_abort # 0
       THEN /\ loop_exit' = "abort"
            /\ pc' = "report"
       ELSE IF ~(sector_ofst + 1 < sector_max)
       THEN /\ loop_exit' = "extent"
            /\ pc' = "report"
       ELSE /\ pc' = "dispatch"
            /\ UNCHANGED loop_exit
    /\ UNCHANGED <<arg_ofst, arg_iosize, short_seen, elapsed, report,
                   fd_state, cleanups,
                   start_ofst, io_result, zbc_read_zone_abort, dev, zones,
                   iobuf, lblock_size,
                   nr_zones, zidx, iozone, iosize, ionum, file, fvio, fd,
                   sector_ofst, sector_max, sector_count, ret, bcount,
                   iocount, req, reads, reads_after_abort, sink_writes,
                   sink_bytes, unlinked, exit_status>>

\* Mutant of LoopTest: an abort is reported as a failure.
LoopTest_AbortFails ==
    /\ pc = "loop"
    /\ IF zbc_read_zone_abort # 0
       THEN /\ loop_exit' = "abort"
            /\ ret' = 1
            /\ pc' = "report"
       ELSE IF ~(sector_ofst < sector_max)
       THEN /\ loop_exit' = "extent"
            /\ pc' = "report"
            /\ UNCHANGED ret
       ELSE /\ pc' = "dispatch"
            /\ UNCHANGED <<loop_exit, ret>>
    /\ UNCHANGED <<arg_ofst, arg_iosize, short_seen, elapsed, report,
                   fd_state, cleanups,
                   start_ofst, io_result, zbc_read_zone_abort, dev, zones,
                   iobuf, lblock_size,
                   nr_zones, zidx, iozone, iosize, ionum, file, fvio, fd,
                   sector_ofst, sector_max, sector_count, bcount,
                   iocount, req, reads, reads_after_abort, sink_writes,
                   sink_bytes, unlinked, exit_status>>

\* Mutant of LoopTest: the abort flag is not tested.
LoopTest_IgnoreAbort ==
    /\ pc = "loop"
    /\ IF ~(sector_ofst < sector_max)
       THEN /\ loop_exit' = "extent"
            /\ pc' = "report"
       ELSE /\ pc' = "dispatch"
            /\ UNCHANGED loop_exit
    /\ UNCHANGED <<arg_ofst, arg_iosize, short_seen, elapsed, report,
                   fd_state, cleanups,
                   start_ofst, io_result, zbc_read_zone_abort, dev, zones,
                   iobuf, lblock_size,
                   nr_zones, zidx, iozone, iosize, ionum, file, fvio, fd,
                   sector_ofst, sector_max, sector_count, ret, bcount,
                   iocount, req, reads, reads_after_abort, sink_writes,
                   sink_bytes, unlinked, exit_status>>

\* Lines 309-310: the loop condition.
LoopTest ==
    /\ pc = "loop"
    /\ IF zbc_read_zone_abort # 0
       THEN /\ loop_exit' = "abort"
            /\ pc' = "report"
       ELSE IF ~(sector_ofst < sector_max)
       THEN /\ loop_exit' = "extent"
            /\ pc' = "report"
       ELSE /\ pc' = "dispatch"
            /\ UNCHANGED loop_exit
    /\ UNCHANGED <<arg_ofst, arg_iosize, short_seen, elapsed, report,
                   fd_state, cleanups,
                   start_ofst, io_result, zbc_read_zone_abort, dev, zones,
                   iobuf, lblock_size,
                   nr_zones, zidx, iozone, iosize, ionum, file, fvio, fd,
                   sector_ofst, sector_max, sector_count, ret, bcount,
                   iocount, req, reads, reads_after_abort, sink_writes,
                   sink_bytes, unlinked, exit_status>>

\* Lines 312-330: compute the sector count and issue the read.
Dispatch ==
    /\ pc = "dispatch"
    /\ sector_count' = WantSectors(sector_ofst, sector_max, iosize)
    /\ req' = ReadRequest(iozone, sector_ofst, sector_count', fvio,
                          lblock_size)
    /\ reads' = reads + 1
    /\ reads_after_abort' =
          IF zbc_read_zone_abort # 0 THEN reads_after_abort + 1
          ELSE reads_after_abort
    /\ pc' = "read"
    /\ UNCHANGED <<arg_ofst, arg_iosize, short_seen, elapsed, report,
                   fd_state, cleanups,
                   start_ofst, io_result, zbc_read_zone_abort, dev, zones,
                   iobuf, lblock_size,
                   nr_zones, zidx, iozone, iosize, ionum, file, fvio, fd,
                   sector_ofst, sector_max, ret, bcount, iocount,
                   sink_writes, sink_bytes, loop_exit, unlinked,
                   exit_status>>

\* Mutant of Account: the cursor advances by the I/O size asked for on the
\* command line instead of the number of sectors transferred.
Account_Requested(n) ==
    /\ sector_ofst' = sector_ofst + Shr9(iosize)
    /\ bcount' = bcount + Shl9(n)
    /\ iocount' = iocount + 1
    /\ ret' = 0
    /\ IF ionum > 0 /\ iocount' >= ionum
       THEN /\ loop_exit' = "budget"
            /\ pc' = "report"
       ELSE /\ pc' = "loop"
            /\ UNCHANGED loop_exit

\* Mutant of Account: the budget test is off by one.
Account_BudgetOffByOne(n) ==
    /\ sector_ofst' = sector_ofst + n
    /\ bcount' = bcount + Shl9(n)
    /\ iocount' = iocount + 1
    /\ ret' = 0
    /\ IF ionum > 0 /\ iocount' > ionum
       THEN /\ loop_exit' = "budget"
            /\ pc' = "report"
       ELSE /\ pc' = "loop"
            /\ UNCHANGED loop_exit

\* Lines 351-357: account for a completed I/O of n sectors and test the
\* I/O budget.
\* Mutant of Account: the byte count grows by the sector count.
Account_BytesAsSectors(n) ==
    /\ sector_ofst' = sector_ofst + n
    /\ bcount' = bcount + n
    /\ iocount' = iocount + 1
    /\ ret' = 0
    /\ IF ionum > 0 /\ iocount' >= ionum
       THEN /\ loop_exit' = "budget"
            /\ pc' = "report"
       ELSE /\ pc' = "loop"
            /\ UNCHANGED loop_exit

Account(n) ==
    /\ sector_ofst' = sector_ofst + n
    /\ bcount' = bcount + Shl9(n)
    /\ iocount' = iocount + 1
    /\ ret' = 0
    /\ IF ionum > 0 /\ iocount' >= ionum
       THEN /\ loop_exit' = "budget"
            /\ pc' = "report"
       ELSE /\ pc' = "loop"
            /\ UNCHANGED loop_exit

\* Mutant of ReadFailed: the loop goes on and asks again.
ReadFailed_Retry ==
    /\ pc' = "loop"
    /\ UNCHANGED <<sector_count, sector_ofst, bcount, iocount, ret,
                   loop_exit>>

\* Mutant of ReadFailed: ret keeps the value the read returned.
ReadFailed_KeepsRet ==
    /\ ret' = io_result'[1]
    /\ loop_exit' = "read_err"
    /\ pc' = "report"
    /\ UNCHANGED <<sector_ofst, bcount, iocount, sector_count>>

\* Lines 331-336: a read result <= 0 ends the loop with ret = 1.
ReadFailed ==
    /\ ret' = 1
    /\ loop_exit' = "read_err"
    /\ pc' = "report"
    /\ UNCHANGED <<sector_ofst, bcount, iocount, sector_count>>

\* Lines 326-339: the read returns.
ReadReturn ==
    /\ pc = "read"
    /\ \E r \in ReadResults(req.count) :
          /\ io_result' = <<r>>
          /\ short_seen' = (short_seen \/ (0 < r /\ r < req.count))
          /\ IF r <= 0
             THEN ReadFailed
             ELSE
               /\ sector_count' = r
               /\ IF file # "NULL"
                  THEN /\ ret' = r
                       /\ pc' = "write"
                       /\ UNCHANGED <<sector_ofst, bcount, iocount,
                                      loop_exit>>
                  ELSE Account(r)
    /\ UNCHANGED <<arg_ofst, arg_iosize, elapsed, report,
                   fd_state, cleanups,
                   start_ofst, zbc_read_zone_abort, dev, zones, iobuf,
                   lblock_size,
                   nr_zones, zidx, iozone, iosize, ionum, file, fvio, fd,
                   sector_max, req, reads, reads_after_abort, sink_writes,
                   sink_bytes, unlinked, exit_status>>

\* Mutant of WriteFailed: the chunk whose write failed is counted.
WriteFailed_CountsChunk ==
    /\ ret' = 1
    /\ loop_exit' = "write_err"
    /\ pc' = "report"
    /\ sector_ofst' = sector_ofst + sector_count
    /\ bcount' = bcount + Shl9(sector_count)
    /\ iocount' = iocount + 1

\* Lines 342-348: a negative write result ends the loop with ret = 1.
WriteFailed ==
    /\ ret' = 1
    /\ loop_exit' = "write_err"
    /\ pc' = "report"
    /\ UNCHANGED <<sector_ofst, bcount, iocount>>

\* Lines 339-357: the data read is written to the output.
SinkWrite ==
    /\ pc = "write"
    /\ sink_writes' = sink_writes + 1
    /\ sink_bytes' = Shl9(sector_count)
    /\ \E w \in WriteResults(Shl9(sector_count)) :
          /\ io_result' = <<w>>
          /\ IF w < 0 THEN WriteFailed ELSE Account(sector_count)
    /\ UNCHANGED <<arg_ofst, arg_iosize, short_seen, elapsed, report,
                   fd_state, cleanups,
                   start_ofst, zbc_read_zone_abort, dev, zones, iobuf,
                   lblock_size,
                   nr_zones, zidx, iozone, iosize, ionum, file, fvio, fd,
                   sector_max, sector_count, req, reads, reads_after_abort,
                   unlinked, exit_status>>

(***************************************************************************)
(* The report, lines 361-378.                                              *)
(***************************************************************************)
\* Mutant of ReportLine: the fraction printed is brate modulo 1000.
ReportLine_FracModThousand(b, n, e) ==
    IF e # 0
    THEN LET brate == (b * 1000000) \div e
         IN  [rates |-> TRUE, bytes |-> b, ios |-> n,
              secs |-> e \div 1000000,
              msecs |-> (e % 1000000) \div 1000,
              iops |-> (n * 1000000) \div e,
              bw_int |-> brate \div 1000000,
              bw_frac |-> brate % 1000]
    ELSE [rates |-> FALSE, bytes |-> b, ios |-> n]

\* What lines 362-378 print for bcount b, iocount n and e microseconds.  The
\* operands are unsigned long long; b * 1000000 stays below 2^64 for every
\* b < 2^64 / 10^6 bytes (18 TB), far above the size of one zone.
ReportLine(b, n, e) ==
    IF e # 0
    THEN LET brate == (b * 1000000) \div e
         IN  [rates |-> TRUE, bytes |-> b, ios |-> n,
              secs |-> e \div 1000000,
              msecs |-> (e % 1000000) \div 1000,
              iops |-> (n * 1000000) \div e,
              bw_int |-> brate \div 1000000,
              bw_frac |-> (brate % 1000000) \div 1000]
    ELSE [rates |-> FALSE, bytes |-> b, ios |-> n]

Report ==
    /\ pc = "report"
    /\ \E e \in ElapsedValues :
          /\ elapsed' = e
          /\ report' = <<ReportLine(bcount, iocount, e)>>
    /\ pc' = "out"
    /\ UNCHANGED <<arg_ofst, arg_iosize, short_seen,
                   fd_state, cleanups,
                   start_ofst, io_result, zbc_read_zone_abort, dev, zones,
                   iobuf, lblock_size,
                   nr_zones, zidx, iozone, iosize, ionum, file, fvio, fd,
                   sector_ofst, sector_max, sector_count, ret, bcount,
                   iocount, req, reads, reads_after_abort, sink_writes,
                   sink_bytes, loop_exit, unlinked, exit_status>>

(***************************************************************************)
(* The out: label, lines 380-397.                                          *)
(***************************************************************************)
\* close(fd), line 384.
CloseFd(st) == IF st = "open" THEN "closed" ELSE "bad_close"

\* Mutant of Release: the resource is left as it is.
Release_Nothing(st) == st

\* free() of a non-NULL pointer and zbc_close(), lines 390-395: releasing
\* what is already released is recorded as "double".
Release(st) == IF st \in {"alloc", "open"}
               THEN (IF st = "open" THEN "closed" ELSE "freed")
               ELSE "double"

Cleanup ==
    /\ pc = "out"
    /\ fd_state' = IF file # "NULL" /\ fd > 0 /\ fd # StdoutFd
                   THEN CloseFd(fd_state) ELSE fd_state
    /\ unlinked' = IF file # "NULL" /\ fd > 0 /\ ret # 0 THEN file
                   ELSE unlinked
    /\ iobuf' = IF iobuf # "NULL" THEN Release(iobuf) ELSE iobuf
    /\ zones' = IF zones # "NULL" THEN Release(zones) ELSE zones
    /\ dev' = Release(dev)
    /\ cleanups' = cleanups + 1
    /\ exit_status' = ret
    /\ pc' = "exit"
    /\ UNCHANGED <<arg_ofst, arg_iosize, short_seen, elapsed, report,
                   start_ofst, io_result, zbc_read_zone_abort, lblock_size,
                   nr_zones, zidx, iozone,
                   iosize, ionum, file, fvio, fd, sector_ofst, sector_max,
                   sector_count, ret, bcount, iocount, req, reads,
                   reads_after_abort, sink_writes, sink_bytes, loop_exit>>

(***************************************************************************)
(* zbc_read_zone_sigcatcher(), lines 55-58, installed at lines 181-183:    *)
(* runs between any two steps of main() while the process lives.  The flag  *)
(* is a plain static int; every loop iteration calls external functions,   *)
(* so a build reloads it at each evaluation of the loop condition.         *)
(***************************************************************************)
zbc_read_zone_sigcatcher ==
    /\ pc \notin {"parse", "exit"}
    /\ zbc_read_zone_abort' = 1
    /\ UNCHANGED main_vars
    /\ UNCHANGED reads_after_abort

Next ==
    \/ ParseArgs
    \/ OpenDevice
    \/ ListZones
    \/ GetZone
    \/ CheckAlign
    \/ AllocBuf
    \/ OpenFile
    \/ Bounds
    \/ LoopTest
    \/ Dispatch
    \/ ReadReturn
    \/ SinkWrite
    \/ Report
    \/ Cleanup
    \/ zbc_read_zone_sigcatcher

Spec == Init /\ [][Next]_vars

\* The steps of main().
MainNext ==
    \/ ParseArgs \/ OpenDevice \/ ListZones \/ GetZone \/ CheckAlign
    \/ AllocBuf \/ OpenFile \/ Bounds \/ LoopTest \/ Dispatch
    \/ ReadReturn \/ SinkWrite \/ Report \/ Cleanup

\* main() is a running process whose blocking calls return: it takes its
\* next step whenever it has one.  No assumption on signal delivery.
FairSpec == Init /\ [][Next]_vars /\ WF_vars(MainNext)

(***************************************************************************)
(* Properties.                                                             *)
(***************************************************************************)
\* The extent limit has been computed (line 305 has been passed).
BoundsDone ==
    \/ pc \in {"loop", "dispatch", "read", "write", "report"}
    \/ loop_exit # "none"

\* The write pointer of the target zone lies within the zone.
WpInZone ==
    /\ iozone.zbz_start <= iozone.zbz_write_pointer
    /\ iozone.zbz_write_pointer <= iozone.zbz_start + iozone.zbz_length

\* The loop has ended (line 359 has been passed).
LoopEnded == loop_exit # "none"

\* C1: every read request in flight starts at absolute sector
\* start_sector + cursor_offset and asks for exactly
\* min(io_size_in_sectors, extent_limit - cursor_offset) sectors (for a
\* vectored request, the sum of its segments); it covers no sector at or
\* beyond start_sector + extent_limit, and asks for no more bytes than the
\* transfer buffer of io_size bytes holds.
C1_ReadRequestBounded ==
    pc = "read" =>
        /\ req.sector = zbc_zone_start(iozone) + sector_ofst
        /\ req.count = Min(iosize \div 512, sector_max - sector_ofst)
        /\ req.count >= 1
        /\ req.sector + req.count <= zbc_zone_start(iozone) + sector_max
        /\ req.count * 512 <= iosize
        /\ \A i \in 1..Len(req.iov) :
              req.iov[i].iov_base + req.iov[i].iov_len * 512 <= iosize

\* C1 witness: a conventional zone read from offset 0 with an I/O size
\* larger than the zone: the request is clamped to the zone length.
C1_Witness ==
    /\ pc = "read"
    /\ zbc_zone_conventional(iozone)
    /\ start_ofst = 0
    /\ iosize \div 512 > zbc_zone_length(iozone)
    /\ req.count = zbc_zone_length(iozone)

\* C2: once computed, extent_limit is write_pointer - start_sector when the
\* zone is sequential-write-required and not full, and the zone length in
\* every other case (conventional, another type, or full); a zone under the
\* write pointer rule whose write pointer equals its start has
\* extent_limit = 0 and the run dispatches no read and counts no I/O.
C2_ExtentRule ==
    BoundsDone =>
        /\ (iozone.zbz_type = "SEQUENTIAL_REQ" /\ iozone.zbz_condition # "FULL")
              => sector_max = iozone.zbz_write_pointer - iozone.zbz_start
        /\ ~(iozone.zbz_type = "SEQUENTIAL_REQ" /\ iozone.zbz_condition # "FULL")
              => sector_max = iozone.zbz_length
        /\ (/\ iozone.zbz_type = "SEQUENTIAL_REQ"
            /\ iozone.zbz_condition # "FULL"
            /\ iozone.zbz_write_pointer = iozone.zbz_start)
              => (sector_max = 0 /\ reads = 0 /\ iocount = 0 /\ bcount = 0)

\* C2 witness: a run on an empty sequential-write-required zone has ended.
C2_Witness ==
    /\ pc = "exit"
    /\ loop_exit = "extent"
    /\ iozone.zbz_type = "SEQUENTIAL_REQ"
    /\ iozone.zbz_condition # "FULL"
    /\ iozone.zbz_write_pointer = iozone.zbz_start
    /\ start_ofst = 0
    /\ reads = 0

\* C3: for every zone descriptor, the computed extent_limit never exceeds
\* the zone length.
C3_ExtentWithinZone ==
    BoundsDone => sector_max <= iozone.zbz_length

\* C4 as stated: whenever the extent limit is known, cursor_offset is not
\* below the offset it started from and 0 <= cursor_offset <= extent_limit,
\* for every accepted (non-negative) starting offset.  It is stated here
\* for the zones whose write pointer lies within the zone only, so that its
\* refutation does not rest on a malformed descriptor.
C4_CursorNeverExceedsExtent ==
    (BoundsDone /\ WpInZone) =>
        /\ start_ofst <= sector_ofst
        /\ 0 <= sector_ofst
        /\ sector_ofst <= sector_max

\* C4 as amended: cursor_offset never decreases, is never negative and never
\* exceeds max(extent_limit, starting offset): a run that starts within the
\* extent keeps 0 <= cursor_offset <= extent_limit, and a run that starts
\* beyond it leaves cursor_offset where it started and dispatches no read.
C4_CursorWithinExtentOrStart ==
    [][/\ sector_ofst' >= sector_ofst
       /\ BoundsDone' =>
            /\ 0 <= sector_ofst'
            /\ sector_ofst' <= Max(sector_max', start_ofst')
            /\ start_ofst' > sector_max'
                 => (sector_ofst' = start_ofst' /\ reads' = 0)]_vars

\* C4 witness: a run that started inside the extent advanced the cursor in
\* several I/Os up to the extent limit.
C4_Witness ==
    /\ loop_exit = "extent"
    /\ start_ofst = 1
    /\ iocount >= 2
    /\ sector_ofst = sector_max

\* C5: with an I/O budget N >= 1, issued_ios <= N always, no read is
\* dispatched or in flight once issued_ios = N, and a loop that ended without
\* abort or error on an extent that holds more than N full-size I/Os ended
\* by the budget, after exactly N I/Os, with status 0.
C5_BudgetRespected ==
    ionum > 0 =>
        /\ iocount <= ionum
        /\ reads <= ionum
        /\ pc \in {"dispatch", "read", "write"} => iocount < ionum
        /\ (/\ LoopEnded
            /\ loop_exit \notin {"abort", "read_err", "write_err"}
            /\ sector_max - start_ofst > ionum * (iosize \div 512))
              => /\ loop_exit = "budget"
                 /\ iocount = ionum
                 /\ reads = ionum
                 /\ ret = 0
                 /\ pc = "exit" => exit_status = 0

\* C5 witness: a budget of 2 ended a run that had extent left.
C5_Witness ==
    /\ pc = "exit"
    /\ ionum = 2
    /\ loop_exit = "budget"
    /\ iocount = 2
    /\ sector_ofst < sector_max
    /\ sector_max - start_ofst > ionum * (iosize \div 512)
    /\ exit_status = 0

\* C6 as stated: without a budget, abort or error, the loop ends with
\* cursor_offset exactly equal to extent_limit, for every starting offset.
\* It is stated here for the zones whose write pointer lies within the zone
\* only, so that its refutation does not rest on a malformed descriptor.
C6_EndsAtExtentLimit ==
    (/\ LoopEnded
     /\ WpInZone
     /\ ionum = 0
     /\ loop_exit \notin {"abort", "read_err", "write_err"})
      => (loop_exit = "extent" /\ sector_ofst = sector_max /\ ret = 0)

\* C6 as amended: without a budget, abort or error, the loop ends DONE with
\* cursor_offset = max(extent_limit, starting offset), that is exactly
\* extent_limit whenever the starting offset does not exceed it.
C6_EndsAtExtentLimitOrStart ==
    (/\ LoopEnded
     /\ ionum = 0
     /\ loop_exit \notin {"abort", "read_err", "write_err"})
      => /\ loop_exit = "extent"
         /\ sector_ofst = Max(sector_max, start_ofst)
         /\ ret = 0
         /\ pc = "exit" => exit_status = 0

\* C6 witness: a run without budget reached the extent limit through short
\* transfers (three I/Os with a two-sector I/O size).
C6_Witness ==
    /\ pc = "exit"
    /\ ionum = 0
    /\ loop_exit = "extent"
    /\ iosize = 1024
    /\ iocount = 3
    /\ start_ofst = 0
    /\ sector_ofst = sector_max

\* C7: when the abort flag is set at the top of an iteration, the next step
\* of main() leaves the loop in ABORTED without dispatching a read or
\* writing to the sink; from then on the counters, the reads and the sink
\* writes stay as they were (every dispatched read and sink write is a
\* counted I/O), ret is 0, main() returns 0 and the output is not removed.
\* So a flag set after the first I/O and before the second test leaves
\* exactly 1 I/O counted.
C7_AbortStopsLoop ==
    [][/\ (pc = "loop" /\ zbc_read_zone_abort # 0)
            => /\ pc' = "report"
               /\ loop_exit' = "abort"
               /\ UNCHANGED <<sector_ofst, bcount, iocount, reads,
                              sink_writes, ret>>
       /\ loop_exit = "abort"
            => UNCHANGED <<sector_ofst, bcount, iocount, reads, sink_writes,
                           ret, loop_exit>>
       /\ loop_exit' = "abort"
            => /\ ret' = 0
               /\ reads' = iocount'
               /\ file' # "NULL" => sink_writes' = iocount'
               /\ pc' = "exit" => (exit_status' = 0 /\ unlinked' = "NULL")]_vars

\* C7 witness: a run to a file, aborted after exactly one counted I/O with
\* extent left and no budget, has returned 0 and kept its output.
C7_Witness ==
    /\ pc = "exit"
    /\ loop_exit = "abort"
    /\ ionum = 0
    /\ iocount = 1
    /\ reads = 1
    /\ reads_after_abort = 0
    /\ sector_ofst < sector_max
    /\ file = "out.bin"
    /\ unlinked = "NULL"
    /\ exit_status = 0

\* C8: a step that changes the abort flag sets it to 1 and changes nothing
\* main() owns; the flag is never cleared; a read or sink write in flight
\* while the flag is set is counted in full when it completes (cursor,
\* bytes, I/O count, and the whole chunk is handed to the sink); and at most
\* one read is dispatched while the flag is set.
C8_HandlerOnlySetsFlag ==
    [][/\ zbc_read_zone_abort' # zbc_read_zone_abort
            => (zbc_read_zone_abort' = 1 /\ UNCHANGED main_vars)
       /\ zbc_read_zone_abort # 0 => zbc_read_zone_abort' # 0
       /\ (zbc_read_zone_abort # 0 /\ pc = "read" /\ pc' # "read"
              /\ io_result'[1] > 0)
            => /\ sector_count' = io_result'[1]
               /\ IF file # "NULL"
                  THEN pc' = "write" /\ UNCHANGED <<sector_ofst, iocount>>
                  ELSE /\ sector_ofst' = sector_ofst + io_result'[1]
                       /\ bcount' = bcount + 512 * io_result'[1]
                       /\ iocount' = iocount + 1
       /\ (zbc_read_zone_abort # 0 /\ pc = "write" /\ pc' # "write")
            => /\ sink_writes' = sink_writes + 1
               /\ sink_bytes' = 512 * sector_count
               /\ io_result'[1] >= 0
                    => /\ sector_ofst' = sector_ofst + sector_count
                       /\ bcount' = bcount + 512 * sector_count
                       /\ iocount' = iocount + 1
       /\ reads_after_abort' <= 1]_vars

\* C8 witness: the flag was set between the loop test and the dispatch; the
\* one read dispatched after it transferred its full request, was written
\* to the sink and counted, and the loop then ended ABORTED.
C8_Witness ==
    /\ pc = "exit"
    /\ loop_exit = "abort"
    /\ reads_after_abort = 1
    /\ reads = 1
    /\ iocount = 1
    /\ sector_count = req.count
    /\ req.count = 2
    /\ file # "NULL"
    /\ sink_writes = 1
    /\ sink_bytes = 1024
    /\ bcount = 1024
    /\ sector_ofst = start_ofst + 2

\* C9: when the read primitive returns zero or a negative value, that step
\* leaves the loop for the report with ret # 0 and with cursor_offset,
\* bytes_transferred, issued_ios, reads and sink writes unchanged; after
\* that no read is dispatched and the counters do not change (exactly one
\* dispatched read is uncounted), and main() returns non-zero.
C9_ReadFailureStops ==
    [][/\ (pc = "read" /\ pc' # "read" /\ io_result'[1] <= 0)
            => /\ pc' = "report"
               /\ loop_exit' = "read_err"
               /\ ret' # 0
               /\ UNCHANGED <<sector_ofst, bcount, iocount, reads,
                              sink_writes>>
       /\ loop_exit = "read_err"
            => UNCHANGED <<sector_ofst, bcount, iocount, reads, sink_writes,
                           ret, loop_exit>>
       /\ loop_exit' = "read_err"
            => /\ ret' # 0
               /\ reads' = iocount' + 1
               /\ pc' = "exit" => exit_status' # 0]_vars

\* C9 witness: the second read returned -5; one I/O is counted and main()
\* returned 1.
C9_Witness ==
    /\ pc = "exit"
    /\ loop_exit = "read_err"
    /\ io_result = <<0 - 5>>
    /\ reads = 2
    /\ iocount = 1
    /\ bcount = 512 * (sector_ofst - start_ofst)
    /\ sector_ofst > start_ofst
    /\ exit_status = 1

\* C10: when write(2) on the output returns a negative value, that step
\* leaves the loop for the report with ret # 0 and with cursor_offset,
\* bytes_transferred, issued_ios and reads unchanged (the chunk is not
\* counted); after that no read is dispatched and the counters do not
\* change, and main() returns non-zero.  Without an output file no write is
\* ever issued and the loop never ends by a write error.
C10_SinkFailureStops ==
    [][/\ (pc = "write" /\ pc' # "write" /\ io_result'[1] < 0)
            => /\ pc' = "report"
               /\ loop_exit' = "write_err"
               /\ ret' # 0
               /\ UNCHANGED <<sector_ofst, bcount, iocount, reads>>
       /\ loop_exit = "write_err"
            => UNCHANGED <<sector_ofst, bcount, iocount, reads, sink_writes,
                           ret, loop_exit>>
       /\ loop_exit' = "write_err"
            => /\ ret' # 0
               /\ reads' = iocount' + 1
               /\ sink_writes' = iocount' + 1
               /\ bcount' = 512 * (sector_ofst' - start_ofst')
               /\ pc' = "exit" => exit_status' # 0
       /\ file' = "NULL"
            => /\ sink_writes' = 0
               /\ pc' # "write"
               /\ loop_exit' # "write_err"]_vars

\* C10 witness: the write of the second chunk failed; one I/O is counted
\* and main() returned 1.
C10_Witness ==
    /\ pc = "exit"
    /\ loop_exit = "write_err"
    /\ io_result = <<0 - 1>>
    /\ reads = 2
    /\ sink_writes = 2
    /\ iocount = 1
    /\ sector_ofst > start_ofst
    /\ exit_status = 1

(***************************************************************************)
(* C11.  Disposal of the output artifact.                                  *)
(***************************************************************************)
\* C11: a failed session writing to a newly created output file removes
\* that file; a failed session writing to standard output (file name "-")
\* removes no file; a session whose loop ended with status 0 (DONE or
\* ABORTED) removes nothing.
C11_OutputDisposal ==
    pc = "exit" =>
       /\ (exit_status # 0 /\ file = "out.bin" /\ fd_state # "none")
              => unlinked = file
       /\ (exit_status # 0 /\ file = "-") => unlinked = "NULL"
       /\ (exit_status = 0) => unlinked = "NULL"

(***************************************************************************)
(* C12.  The vectored split.                                               *)
(***************************************************************************)
\* C12: whenever the vectored read is selected for want sectors, the first
\* segment has floor(want / 2) sectors and the second want - floor(want / 2);
\* they sum to want, both are non-zero, the first begins at byte 0 of the
\* buffer and the second at byte first * 512, so the segments are disjoint,
\* in order, and cover exactly the first want * 512 bytes of the buffer.
C12_VectoredSplit ==
    (pc = "read" /\ Len(req.iov) = 2) =>
        LET want == Min(iosize \div 512, sector_max - sector_ofst)
            first == req.iov[1]
            second == req.iov[2]
        IN  /\ 2 * first.iov_len <= want
            /\ want < 2 * (first.iov_len + 1)
            /\ second.iov_len = want - first.iov_len
            /\ first.iov_len + second.iov_len = want
            /\ first.iov_len > 0
            /\ second.iov_len > 0
            /\ first.iov_base = 0
            /\ second.iov_base = first.iov_base + first.iov_len * 512
            /\ second.iov_base + second.iov_len * 512 = want * 512

\* C12 witness: a vectored read of an odd number of sectors, split 1 + 2.
C12_Witness ==
    /\ pc = "read"
    /\ Len(req.iov) = 2
    /\ sector_count = 3
    /\ req.iov[1].iov_len = 1
    /\ req.iov[2].iov_len = 2
    /\ req.iov[2].iov_base = 512

(***************************************************************************)
(* C13.  Configuration errors.                                             *)
(***************************************************************************)
\* The command line carries a configuration error: a negative sector
\* offset, an I/O size of zero, or (once the device gave its logical block
\* size) an I/O size that is not a multiple of it.
ConfigError ==
    /\ pc # "parse"
    /\ \/ arg_ofst < 0
       \/ arg_iosize = 0
       \/ (lblock_size # 0 /\ arg_iosize % lblock_size # 0)

\* C13: a configuration error is detected before the loop starts: main()
\* never reaches the buffer allocation, the output set-up or the loop, no
\* read is dispatched, no output artifact is created or removed, and the
\* status returned is non-zero.
C13_ConfigErrorRejected ==
    ConfigError =>
        /\ pc \in {"list_zones", "get_zone", "check_align", "out", "exit"}
        /\ reads = 0
        /\ iocount = 0
        /\ fd_state = "none" /\ fd < 0
        /\ unlinked = "NULL"
        /\ report = <<>>
        /\ (pc = "exit" => exit_status # 0)

\* C13 witness: an I/O size of 768 B on a device with 512 B logical blocks
\* got through the command line, the zone was found, and main() returned.
C13_Witness ==
    /\ pc = "exit"
    /\ arg_ofst >= 0
    /\ arg_iosize = 768
    /\ lblock_size = 512
    /\ iozone # NoZone
    /\ exit_status = 1

(***************************************************************************)
(* C14.  Accounting of a completed I/O.                                    *)
(***************************************************************************)
\* C14: a step that completes an I/O (the read returned r sectors and, with
\* an output, the chunk was written) has 1 <= r <= the count asked for, and
\* advances the cursor by r, the byte count by r * 512 and the I/O count by
\* 1; with an output the bytes handed to write(2) are r * 512.  In every
\* state the byte count is 512 * (cursor - initial offset).
C14_Accounting ==
    [][/\ iocount' # iocount
            => LET r == sector_count'
               IN  /\ pc \in {"read", "write"}
                   /\ (pc = "read") = (file = "NULL")
                   /\ pc = "read" => io_result'[1] = r
                   /\ pc = "write" => sector_count = r
                   /\ 1 <= r
                   /\ r <= req.count
                   /\ sector_ofst' = sector_ofst + r
                   /\ bcount' = bcount + r * 512
                   /\ iocount' = iocount + 1
                   /\ file # "NULL"
                         => /\ sink_bytes' = r * 512
                            /\ sink_writes' = iocount'
       /\ bcount' = 512 * (sector_ofst' - start_ofst')]_vars

\* C14 witness: two I/Os completed with an output file, one of them short,
\* from a non-zero initial offset.
C14_Witness ==
    /\ pc = "loop"
    /\ file = "out.bin"
    /\ start_ofst = 1
    /\ iocount = 2
    /\ short_seen
    /\ sector_ofst = 3
    /\ bcount = 1024

(***************************************************************************)
(* C15.  One I/O at a time, in cursor order.                               *)
(***************************************************************************)
\* C15: a read is dispatched only when every earlier read has returned, its
\* chunk has been written to the output (if any) and it has been counted;
\* the first read starts at the zone start plus the initial offset and
\* every later read starts at the start sector of the previous read plus
\* the sectors that read transferred, so the pass is monotonic, gap-free
\* and overlap-free.  At most one read is in flight in any state.
C15_Sequential ==
    [][/\ reads' # reads
            => /\ reads' = reads + 1
               /\ pc = "dispatch" /\ pc' = "read"
               /\ iocount = reads
               /\ file # "NULL" => sink_writes = reads
               /\ reads = 0
                     => req'.sector = zbc_zone_start(iozone) + start_ofst
               /\ reads > 0
                     => /\ sector_count >= 1
                        /\ sector_count <= req.count
                        /\ req'.sector = req.sector + sector_count
                        /\ req'.sector > req.sector
       /\ reads' - iocount' \in {0, 1}
       /\ pc' \in {"read", "write"} => reads' = iocount' + 1
       /\ pc' \in {"loop", "dispatch"} => reads' = iocount']_vars

\* C15 witness: the third read of a pass with a short read in it starts
\* where the second one ended.
C15_Witness ==
    /\ pc = "read"
    /\ reads = 3
    /\ iocount = 2
    /\ short_seen
    /\ req.sector = zbc_zone_start(iozone) + start_ofst + 2
    /\ file = "out.bin"
    /\ sink_writes = 2

(***************************************************************************)
(* C16.  Choice of the read primitive.                                     *)
(***************************************************************************)
\* C16: the request of an iteration is the two-segment vectored read if and
\* only if vectored mode is configured and the sectors wanted are at least
\* twice the logical block size in 512 B sectors; otherwise it is a single
\* contiguous read of the sectors wanted.  Each iteration issues exactly one
\* request, of one of the two kinds.
C16_PrimitiveChoice ==
    pc = "read" =>
        LET want == Min(iosize \div 512, sector_max - sector_ofst)
        IN  /\ (Len(req.iov) = 2)
                  = (fvio /\ want >= 2 * (lblock_size \div 512))
            /\ Len(req.iov) \in {0, 2}
            /\ Len(req.iov) = 0 => req.count = want
            /\ Len(req.iov) = 2
                  => req.count = req.iov[1].iov_len + req.iov[2].iov_len
            /\ reads = iocount + 1

\* C16 witness: in vectored mode with 512 B logical blocks the first read
\* (2 sectors) was vectored and the second, the 1-sector tail, is
\* contiguous.
C16_Witness ==
    /\ pc = "read"
    /\ fvio
    /\ lblock_size = 512
    /\ iosize = 1024
    /\ start_ofst = 0
    /\ sector_max = 3
    /\ reads = 2
    /\ sector_ofst = 2
    /\ req.iov = <<>>
    /\ req.count = 1

(***************************************************************************)
(* C17.  A pass of full-size reads.                                        *)
(***************************************************************************)
\* The run started at offset 0 with no budget, the abort flag has not been
\* set, no read or write failed and no read was short so far.
PlainRun ==
    /\ BoundsDone
    /\ start_ofst = 0
    /\ ionum = 0
    /\ zbc_read_zone_abort = 0
    /\ ~short_seen
    /\ loop_exit \notin {"read_err", "write_err"}
    /\ (pc \in {"loop", "dispatch", "write"} /\ io_result # <<>>)
          => io_result[1] > 0
    /\ sector_max >= 0

\* C17: in such a run with extent E and I/O size S sectors, the reads
\* numbered 1 .. floor(E / S) ask for S sectors, a read numbered
\* floor(E / S) + 1 exists only when E mod S # 0 and asks for E mod S
\* sectors, and the loop ends by the extent after ceil(E / S) I/Os with the
\* cursor at E, E * 512 bytes counted and status 0.
C17_FullPass ==
    PlainRun =>
        LET E == sector_max
            S == iosize \div 512
            full == E \div S
            total == full + (IF E % S # 0 THEN 1 ELSE 0)
        IN  /\ reads <= total
            /\ pc = "read"
                  => req.count = (IF reads <= full THEN S ELSE E % S)
            /\ sector_ofst = Min(iocount * S, E)
            /\ LoopEnded
                  => /\ loop_exit = "extent"
                     /\ reads = total
                     /\ iocount = total
                     /\ sector_ofst = E
                     /\ bcount = E * 512
                     /\ ret = 0
                     /\ pc = "exit" => exit_status = 0

\* C17 witness: E = 3 and S = 2 give one full read and a final read of one
\* sector, 1536 bytes in all.
C17_Witness ==
    /\ PlainRun
    /\ pc = "exit"
    /\ sector_max = 3
    /\ iosize = 1024
    /\ iocount = 2
    /\ req.count = 1
    /\ bcount = 1536

(***************************************************************************)
(* C18.  The throughput report.                                            *)
(***************************************************************************)
\* C18: the report is printed exactly when the loop has ended, whatever
\* ended it, and carries the byte and I/O totals.  With elapsed = 0 it
\* carries nothing else (no rate, no division).  With elapsed > 0 it carries
\* IOPS = floor(ios * 1000000 / elapsed) and, for
\* brate = floor(bytes * 1000000 / elapsed), the integer part
\* floor(brate / 1000000) and the three-digit fraction
\* floor((brate mod 1000000) / 1000).
C18_Report ==
    /\ (pc \in {"out", "exit"} /\ LoopEnded) => report # <<>>
    /\ ~LoopEnded => report = <<>>
    /\ report # <<>> =>
          LET r == report[1]
          IN  /\ r.bytes = bcount
              /\ r.ios = iocount
              /\ r.rates = (elapsed # 0)
              /\ elapsed = 0 => DOMAIN r = {"rates", "bytes", "ios"}
              /\ elapsed > 0 =>
                    /\ r.iops * elapsed <= iocount * 1000000
                    /\ iocount * 1000000 < (r.iops + 1) * elapsed
                    /\ \E brate \in {(bcount * 1000000) \div elapsed} :
                          /\ brate * elapsed <= bcount * 1000000
                          /\ bcount * 1000000 - brate * elapsed < elapsed
                          /\ r.bw_int * 1000000 <= brate
                          /\ brate - r.bw_int * 1000000 < 1000000
                          /\ r.bw_frac \in 0..999
                          /\ r.bw_frac * 1000
                                <= brate - r.bw_int * 1000000
                          /\ brate - r.bw_int * 1000000
                                < (r.bw_frac + 1) * 1000

\* C18 witness: a run that failed on its second read after one 512 B I/O,
\* 3 microseconds: 333333 IOPS and 170.666 MB/s.
C18_Witness ==
    /\ pc = "exit"
    /\ loop_exit = "read_err"
    /\ elapsed = 3
    /\ report = <<[rates |-> TRUE, bytes |-> 512, ios |-> 1, secs |-> 0,
                   msecs |-> 0, iops |-> 333333, bw_int |-> 170,
                   bw_frac |-> 666]>>

(***************************************************************************)
(* C19.  Cleanup.                                                          *)
(***************************************************************************)
\* C19: once the device is open, main() passes through the out: label
\* exactly once before it returns, whichever path it took.  Until then
\* nothing is released: the device is open during every read and the
\* buffer allocated, and the output descriptor is usable during every
\* write.  After it the buffer (if allocated) and the zone list (if
\* obtained) are freed once, a descriptor opened on a new file is closed
\* once, standard output is not closed, and the device is closed once.
C19_CleanupOnce ==
    /\ cleanups \in {0, 1}
    /\ (cleanups = 1) = (pc = "exit" /\ dev # "NULL")
    /\ (pc # "exit" /\ dev # "NULL")
          => /\ dev = "open"
             /\ zones \in {"NULL", "alloc"}
             /\ iobuf \in {"NULL", "alloc"}
             /\ fd_state \in {"none", "std", "open"}
    /\ pc \in {"dispatch", "read", "write"}
          => /\ dev = "open"
             /\ zones = "alloc"
             /\ iobuf = "alloc"
    /\ pc = "write" => fd_state \in {"std", "open"}
    /\ (pc = "exit" /\ dev # "NULL")
          => /\ dev = "closed"
             /\ zones \in {"NULL", "freed"}
             /\ iobuf \in {"NULL", "freed"}
             /\ fd_state \in {"none", "std", "closed"}
             /\ (fd_state = "closed") = (file = "out.bin" /\ fd >= 0)
             /\ (fd_state = "std") = (file = "-" /\ fd = StdoutFd)
             /\ (zones = "freed") = (nr_zones # 0)
             /\ (fd_state # "none" \/ LoopEnded) => iobuf = "freed"
             /\ iobuf = "freed" => zones = "freed"

\* C19 witness: the output file could not be opened; the buffer and the
\* zone list were freed, the device closed, and nothing else was closed.
C19_Witness ==
    /\ pc = "exit"
    /\ cleanups = 1
    /\ file = "out.bin"
    /\ fd < 0
    /\ fd_state = "none"
    /\ iobuf = "freed"
    /\ zones = "freed"
    /\ dev = "closed"
    /\ exit_status = 1

(***************************************************************************)
(* C20.  Termination of the loop.                                          *)
(***************************************************************************)
\* C20: the reads dispatched never exceed max(0, extent_limit - initial
\* offset), because every counted I/O moved the cursor by at least one
\* sector and a read that is not counted ends the loop; and main() is never
\* stuck: until it has returned it has a next step, for every result the
\* read and the write may return, with or without a budget, whether or not
\* the abort flag is set.  Each turn of the loop dispatches one read, so
\* the loop ends after at most that many reads.
C20_BoundedReads ==
    /\ BoundsDone
          => /\ reads <= Max(0, sector_max - start_ofst)
             /\ sector_ofst >= start_ofst + iocount
             /\ reads <= iocount + 1
             /\ reads > iocount
                   => (pc \in {"read", "write"} \/ LoopEnded)
             /\ iocount + Max(0, sector_max - sector_ofst)
                   <= Max(0, sector_max - start_ofst)
             /\ pc \in {"read", "write"} => sector_ofst < sector_max
    /\ pc # "exit" => ENABLED MainNext

\* Under FairSpec main() returns.
C20_Returns == <>(pc = "exit")

\* C20 witness: with a budget of 2 and the abort flag set during the last
\* read, a pass of one-sector short reads used up the whole bound: 2 reads
\* for an extent of 2 sectors.
C20_Witness ==
    /\ pc = "exit"
    /\ loop_exit = "budget"
    /\ start_ofst = 0
    /\ sector_max = 2
    /\ iosize = 1024
    /\ ionum = 2
    /\ reads = 2
    /\ zbc_read_zone_abort = 1
    /\ short_seen

====
